---- MODULE Spec2Model ----
(***************************************************************************)
(* Model of src/run.py: a batch job that loads a YAML configuration and a  *)
(* CSV table, computes a rolling-mean crossover signal over the `close`    *)
(* column, and writes one JSON metrics record (success or error shaped).   *)
(*                                                                         *)
(* Conventions                                                             *)
(*  - Rows are numbered from 1 here and from 0 in the source, so the       *)
(*    source's "row i, i >= window-1" is "row i, i >= window" below.       *)
(*  - close values are small integers; a mean is kept as the exact         *)
(*    fraction [num, den], and NaN is the fraction 0/0.  On such inputs    *)
(*    float64 arithmetic is exact enough that every comparison agrees      *)
(*    with the fraction.                                                   *)
(*  - A message built by an f-string is the tuple of its parts.            *)
(*  - Writes to the output path and to standard output are taken to        *)
(*    succeed (the host's I/O failures are outside the model).             *)
(***************************************************************************)
EXTENDS Integers, Sequences, FiniteSets, TLC

VARIABLES
    configFile,     \* what is at --config: [exists, doc]
    inputFile,      \* what is at --input: [exists, table]
    outputFile,     \* what is at --output: Absent, Partial or a record
    pc,             \* position of main
    config,         \* main: config
    df,             \* main: df
    rolling_mean,   \* process_data: rolling_mean
    signals,        \* main: signals
    rows_processed, \* main: rows_processed
    signal_rate,    \* main: signal_rate
    latency_ms,     \* main: latency_ms
    metrics,        \* main: metrics / error_metrics
    exc,            \* the exception an except clause caught, with its raiser
    log,            \* the messages this process logged, in order
    stdout,         \* the records this process printed, in order
    exit,           \* the process's exit: Running, or Exited with a status
    writes,         \* the complete records this process wrote to --output
    rerun,          \* TRUE in the second of two consecutive runs
    prev            \* the first run's inputs and outcome, in the second

vars == <<configFile, inputFile, outputFile, pc, config, df, rolling_mean,
          signals, rows_processed, signal_rate, latency_ms, metrics, exc,
          log, stdout, exit, writes, rerun, prev>>

-----------------------------------------------------------------------------
(* Bounds of the model *)

MaxRows == 3
MaxWindow == 3
MaxLatency == 1

(* Input domains *)

CloseVals == {1, 2, 3}
Seeds == {-1, 0, 42}
Windows == {-1} \cup (1..MaxWindow)
\* A YAML scalar such as 2024-01-01 loads as a date, which json cannot dump.
DateValue == "<datetime.date>"
Versions == {"v1", "v2", DateValue}

Unbound == [unbound |-> TRUE]
\* An unbound series-valued local; a computed series is never empty, since
\* load_data rejects an empty table.
NoSeries == <<>>
None == [none |-> TRUE]
Running == [exited |-> FALSE]
Exited(code) == [exited |-> TRUE, code |-> code]
NaN == [num |-> 0, den |-> 0]

RequiredKeys == <<"seed", "window", "version">>

\* Every mapping over a subset of the required keys.
Mappings ==
    {<<>>}
    \cup [seed : Seeds] \cup [window : Windows] \cup [version : Versions]
    \cup [seed : Seeds, window : Windows]
    \cup [seed : Seeds, version : Versions]
    \cup [window : Windows, version : Versions]
    \cup [seed : Seeds, window : Windows, version : Versions]

ConfigFiles ==
    {[exists |-> FALSE, doc |-> None]}
    \cup [exists : {TRUE}, doc : {None} \cup Mappings]

SeqsUpTo(S, n) == UNION {[1..k -> S] : k \in 0..n}

\* The scenario of the specification's section 8.
ScenarioTable == [columns |-> {"close"}, rows |-> <<1, 2, 3, 2, 5>>]

Tables ==
    [columns : {{"close"}, {"open"}}, rows : SeqsUpTo(CloseVals, MaxRows)]
    \cup {ScenarioTable}

InputFiles ==
    {[exists |-> FALSE, table |-> None]}
    \cup [exists : {TRUE}, table : Tables]

Absent == [kind |-> "absent"]
Partial == [kind |-> "partial"]
Written(rec) == [kind |-> "record", rec |-> rec]

StaleRecord ==
    [version |-> "v0", status |-> "error", error_message |-> <<"stale">>]

-----------------------------------------------------------------------------
(* Calls either raise or return *)

Raise(type, msg) == [raised |-> TRUE, exc |-> [type |-> type, msg |-> msg]]
Return(v) == [raised |-> FALSE, value |-> v]

-----------------------------------------------------------------------------
(* load_config *)

RECURSIVE FirstMissing(_, _)
\* The loop over required_keys: the first key, from position i, not in config.
FirstMissing(cfg, i) ==
    IF i > Len(RequiredKeys) THEN ""
    ELSE IF RequiredKeys[i] \notin DOMAIN cfg THEN RequiredKeys[i]
    ELSE FirstMissing(cfg, i + 1)

load_config(file) ==
    IF ~file.exists
    THEN Raise("FileNotFoundError", <<"Config file not found: ", "config_path">>)
    ELSE LET cfg == file.doc IN
         IF cfg = None
         \* `key not in None`
         THEN Raise("TypeError", <<"argument of type 'NoneType' is not iterable">>)
         ELSE IF FirstMissing(cfg, 1) # ""
         THEN Raise("ValueError",
                    <<"Missing required config key: ", FirstMissing(cfg, 1)>>)
         ELSE Return(cfg)

(* np.random.seed *)

np_random_seed(seed) ==
    IF seed < 0
    THEN Raise("ValueError", <<"Seed must be between 0 and 2**32 - 1">>)
    ELSE Return(None)

(* load_data *)

\* Mutation: the df.empty check is missing.
load_data_NoEmptyCheck(file) ==
    IF ~file.exists
    THEN Raise("FileNotFoundError", <<"Input file not found: ", "input_path">>)
    ELSE LET t == file.table IN
         IF "close" \notin t.columns
         THEN Raise("ValueError", <<"Required 'close' column missing">>)
         ELSE Return(t)

load_data(file) ==
    IF ~file.exists
    THEN Raise("FileNotFoundError", <<"Input file not found: ", "input_path">>)
    ELSE LET t == file.table IN
         IF Len(t.rows) = 0
         THEN Raise("ValueError", <<"Input CSV is empty">>)
         ELSE IF "close" \notin t.columns
         THEN Raise("ValueError", <<"Required 'close' column missing">>)
         ELSE Return(t)

-----------------------------------------------------------------------------
(* process_data *)

RECURSIVE WindowSum(_, _, _)
\* The sum of the trailing window ending at row i >= window, kept the way a
\* rolling aggregation keeps it: add the entering row, remove the leaving one.
WindowSum(close, i, window) ==
    IF i = 0 \/ window = 0 THEN 0
    ELSE IF i <= window THEN WindowSum(close, i - 1, window) + close[i]
    ELSE WindowSum(close, i - 1, window) + close[i] - close[i - window]

\* Series.rolling(window=window): pandas rejects a negative window.
Rolling(close, window) ==
    IF window < 0
    THEN Raise("ValueError", <<"window must be an integer 0 or greater">>)
    ELSE Return([close |-> close, window |-> window])

\* Mutation: min_periods=1, a mean over however many rows there are so far.
RollingMean_MinPeriodsOne(r) ==
    [i \in 1..Len(r.close) |->
        IF r.window = 0 THEN NaN
        ELSE IF i < r.window
        THEN [num |-> WindowSum(r.close, i, r.window), den |-> i]
        ELSE [num |-> WindowSum(r.close, i, r.window), den |-> r.window]]

\* Rolling.mean(): min_periods defaults to window, so a row with fewer than
\* `window` observations has no mean.
RollingMean(r) ==
    [i \in 1..Len(r.close) |->
        IF i < r.window \/ r.window = 0 THEN NaN
        ELSE [num |-> WindowSum(r.close, i, r.window), den |-> r.window]]

\* Mutation: the comparison is not strict.
Greater_NonStrict(x, m) == IF m.den = 0 THEN FALSE ELSE x * m.den >= m.num

\* x > m on floats: any comparison with NaN is False.
Greater(x, m) == IF m.den = 0 THEN FALSE ELSE x * m.den > m.num

\* .astype(int) on a boolean
AsInt(b) == IF b THEN 1 ELSE 0

Signals(close, rm) == [i \in 1..Len(close) |-> AsInt(Greater(close[i], rm[i]))]

RECURSIVE SeqSum(_)
SeqSum(s) == IF s = <<>> THEN 0 ELSE s[1] + SeqSum(Tail(s))

\* Mutation: the sum of the series instead of its mean.
SeriesMean_Sum(s) == [num |-> SeqSum(s), den |-> 1]

\* Series.mean() of a non-empty integer series, as the exact fraction.
SeriesMean(s) == [num |-> SeqSum(s), den |-> Len(s)]

process_data(d, seed, window) ==
    LET seeded == np_random_seed(seed) IN
    IF seeded.raised THEN seeded
    ELSE LET r == Rolling(d.rows, window) IN
         IF r.raised THEN r
         ELSE LET rm == RollingMean(r.value)
                  sg == Signals(d.rows, rm)
              IN Return([rolling_mean |-> rm,
                         rows_processed |-> Len(d.rows),
                         signal_rate |-> SeriesMean(sg),
                         signals |-> sg])

-----------------------------------------------------------------------------
(* main *)

SuccessRecord(cfg, rows, rate, latency) ==
    [version |-> cfg.version,
     rows_processed |-> rows,
     metric |-> "signal_rate",
     value |-> rate,
     latency_ms |-> latency,
     seed |-> cfg.seed,
     status |-> "success"]

\* Mutation: the error record echoes the configuration's version.
ErrorRecord_ConfigVersion(e) ==
    [version |-> IF "version" \in DOMAIN config THEN config.version ELSE "v1",
     status |-> "error",
     error_message |-> e.msg]

ErrorRecord(e) ==
    [version |-> "v1", status |-> "error", error_message |-> e.msg]

\* json.dump raises on a value it cannot serialise.
Serialisable(rec) == rec.version # DateValue

Caught(r, by) == [type |-> r.exc.type, msg |-> r.exc.msg, by |-> by]

Init ==
    /\ configFile \in ConfigFiles
    /\ inputFile \in InputFiles
    /\ outputFile \in {Absent, Written(StaleRecord)}
    /\ pc = "start"
    /\ config = Unbound
    /\ df = Unbound
    /\ rolling_mean = NoSeries
    /\ signals = NoSeries
    /\ rows_processed = Unbound
    /\ signal_rate = Unbound
    /\ latency_ms = Unbound
    /\ metrics = Unbound
    /\ exc = Unbound
    /\ log = <<>>
    /\ stdout = <<>>
    /\ exit = Running
    /\ writes = <<>>
    /\ rerun = FALSE
    /\ prev = Unbound

\* line 81
Start ==
    /\ pc = "start"
    /\ log' = Append(log, "Job started")
    /\ pc' = "load_config"
    /\ UNCHANGED <<configFile, inputFile, outputFile, config, df, rolling_mean,
                   signals, rows_processed, signal_rate, latency_ms, metrics,
                   exc, stdout, exit, writes, rerun, prev>>

\* lines 84-85
LoadConfig ==
    /\ pc = "load_config"
    /\ LET r == load_config(configFile) IN
       IF r.raised
       THEN /\ exc' = Caught(r, "load_config")
            /\ pc' = "except"
            /\ UNCHANGED <<config, log>>
       ELSE /\ config' = r.value
            /\ log' = Append(log, "Config loaded")
            /\ pc' = "seed"
            /\ UNCHANGED exc
    /\ UNCHANGED <<configFile, inputFile, outputFile, df, rolling_mean,
                   signals, rows_processed, signal_rate, latency_ms, metrics,
                   stdout, exit, writes, rerun, prev>>

\* line 86
SeedGlobal ==
    /\ pc = "seed"
    /\ LET r == np_random_seed(config.seed) IN
       IF r.raised
       THEN /\ exc' = Caught(r, "main")
            /\ pc' = "except"
       ELSE /\ pc' = "load_data"
            /\ UNCHANGED exc
    /\ UNCHANGED <<configFile, inputFile, outputFile, config, df, rolling_mean,
                   signals, rows_processed, signal_rate, latency_ms, metrics,
                   log, stdout, exit, writes, rerun, prev>>

\* lines 89-90
LoadData ==
    /\ pc = "load_data"
    /\ LET r == load_data(inputFile) IN
       IF r.raised
       THEN /\ exc' = Caught(r, "load_data")
            /\ pc' = "except"
            /\ UNCHANGED <<df, log>>
       ELSE /\ df' = r.value
            /\ log' = Append(log, "Data loaded")
            /\ pc' = "log_rolling"
            /\ UNCHANGED exc
    /\ UNCHANGED <<configFile, inputFile, outputFile, config, rolling_mean,
                   signals, rows_processed, signal_rate, latency_ms, metrics,
                   stdout, exit, writes, rerun, prev>>

\* line 93
LogRolling ==
    /\ pc = "log_rolling"
    /\ log' = Append(log, "Rolling mean calculated")
    /\ pc' = "process_data"
    /\ UNCHANGED <<configFile, inputFile, outputFile, config, df, rolling_mean,
                   signals, rows_processed, signal_rate, latency_ms, metrics,
                   exc, stdout, exit, writes, rerun, prev>>

\* lines 94-95
ProcessData ==
    /\ pc = "process_data"
    /\ LET r == process_data(df, config.seed, config.window) IN
       IF r.raised
       THEN /\ exc' = Caught(r, "process_data")
            /\ pc' = "except"
            /\ UNCHANGED <<rolling_mean, signals, rows_processed, signal_rate, log>>
       ELSE /\ rolling_mean' = r.value.rolling_mean
            /\ rows_processed' = r.value.rows_processed
            /\ signal_rate' = r.value.signal_rate
            /\ signals' = r.value.signals
            /\ log' = Append(log, "Signals generated")
            /\ pc' = "metrics"
            /\ UNCHANGED exc
    /\ UNCHANGED <<configFile, inputFile, outputFile, config, df, latency_ms,
                   metrics, stdout, exit, writes, rerun, prev>>

\* lines 98-110
Metrics ==
    /\ pc = "metrics"
    /\ \E elapsed \in 0..MaxLatency :
          /\ latency_ms' = elapsed
          /\ metrics' = SuccessRecord(config, rows_processed, signal_rate, elapsed)
    /\ log' = Append(log, "Metrics")
    /\ pc' = "write"
    /\ UNCHANGED <<configFile, inputFile, outputFile, config, df, rolling_mean,
                   signals, rows_processed, signal_rate, exc, stdout, exit,
                   writes, rerun, prev>>

\* lines 112-113: open(..., 'w') truncates, then json.dump streams the record
WriteMetrics ==
    /\ pc = "write"
    /\ IF Serialisable(metrics)
       THEN /\ outputFile' = Written(metrics)
            /\ writes' = Append(writes, metrics)
            /\ pc' = "complete"
            /\ UNCHANGED exc
       ELSE /\ outputFile' = Partial
            /\ exc' = [type |-> "TypeError",
                       msg |-> <<"Object of type date is not JSON serializable">>,
                       by |-> "main"]
            /\ pc' = "except"
            /\ UNCHANGED writes
    /\ UNCHANGED <<configFile, inputFile, config, df, rolling_mean, signals,
                   rows_processed, signal_rate, latency_ms, metrics, log,
                   stdout, exit, rerun, prev>>

\* Mutation: the print after the write raises inside the try block.
Complete_PrintRaises ==
    /\ pc = "complete"
    /\ log' = Append(log, "Job completed successfully")
    /\ exc' = [type |-> "OSError", msg |-> <<"print failed">>, by |-> "main"]
    /\ pc' = "except"
    /\ UNCHANGED <<configFile, inputFile, outputFile, config, df, rolling_mean,
                   signals, rows_processed, signal_rate, latency_ms, metrics,
                   stdout, exit, writes, rerun, prev>>

\* lines 115-116, then main returns and the process exits with status 0
Complete ==
    /\ pc = "complete"
    /\ log' = Append(log, "Job completed successfully")
    /\ stdout' = Append(stdout, metrics)
    /\ exit' = Exited(0)
    /\ pc' = "done"
    /\ UNCHANGED <<configFile, inputFile, outputFile, config, df, rolling_mean,
                   signals, rows_processed, signal_rate, latency_ms, metrics,
                   exc, writes, rerun, prev>>

\* lines 118-132
Except ==
    /\ pc = "except"
    /\ \E elapsed \in 0..MaxLatency : latency_ms' = elapsed
    /\ log' = Append(log, "Job failed")
    /\ metrics' = ErrorRecord(exc)
    /\ outputFile' = Written(ErrorRecord(exc))
    /\ writes' = Append(writes, ErrorRecord(exc))
    /\ stdout' = Append(stdout, ErrorRecord(exc))
    /\ exit' = Exited(1)
    /\ pc' = "done"
    /\ UNCHANGED <<configFile, inputFile, config, df, rolling_mean, signals,
                   rows_processed, signal_rate, exc, rerun, prev>>

\* The configurations a second run is given: the same one, or the same one
\* with another seed.
SameButSeed(file) ==
    IF file.exists /\ file.doc # None /\ "seed" \in DOMAIN file.doc
    THEN {[file EXCEPT !.doc.seed = s] : s \in Seeds}
    ELSE {file}

\* The job is started again on the same paths: a new process, whose only
\* inheritance is what the first left on disk.
RunAgain ==
    /\ pc = "done"
    /\ ~rerun
    /\ rerun' = TRUE
    /\ prev' = [configFile |-> configFile, inputFile |-> inputFile,
                outputFile |-> outputFile, exit |-> exit]
    /\ configFile' \in SameButSeed(configFile)
    /\ pc' = "start"
    /\ config' = Unbound
    /\ df' = Unbound
    /\ rolling_mean' = NoSeries
    /\ signals' = NoSeries
    /\ rows_processed' = Unbound
    /\ signal_rate' = Unbound
    /\ latency_ms' = Unbound
    /\ metrics' = Unbound
    /\ exc' = Unbound
    /\ log' = <<>>
    /\ stdout' = <<>>
    /\ exit' = Running
    /\ writes' = <<>>
    /\ UNCHANGED <<inputFile, outputFile>>

Next ==
    \/ Start
    \/ LoadConfig
    \/ SeedGlobal
    \/ LoadData
    \/ LogRolling
    \/ ProcessData
    \/ Metrics
    \/ WriteMetrics
    \/ Complete
    \/ Except
    \/ RunAgain

Spec == Init /\ [][Next]_vars

-----------------------------------------------------------------------------
(* Vocabulary of the properties *)

\* process_data has returned to main in this run.
Processed == signals # NoSeries

\* An except clause has caught an exception raised by `stage`.
FailedIn(stage) == exc # Unbound /\ exc.by = stage

Terminated == pc = "done"

SuccessFields ==
    {"version", "rows_processed", "metric", "value", "latency_ms", "seed", "status"}
ErrorFields == {"version", "status", "error_message"}

SuccessShaped(rec) == DOMAIN rec = SuccessFields /\ rec.status = "success"
ErrorShaped(rec) == DOMAIN rec = ErrorFields /\ rec.status = "error"

RECURSIVE RangeSum(_, _, _)
\* close[lo] + ... + close[hi], summed directly.
RangeSum(close, lo, hi) ==
    IF lo > hi THEN 0 ELSE close[lo] + RangeSum(close, lo + 1, hi)

Ones(s) == Cardinality({i \in 1..Len(s) : s[i] = 1})

-----------------------------------------------------------------------------
\* C1: whenever process_data is called with a positive window it returns, the
\* signal series has the table's length, the signal of row i is 1 exactly when
\* the row has a full window behind it and close[i] is strictly greater than
\* the arithmetic mean of that window, and signal_rate is the number of 1s
\* over the row count; the scenario close=[1,2,3,2,5], window=3 gives
\* [0,0,1,0,1], 2/5 and 5 rows.
C1_SignalDefinition ==
    /\ FailedIn("process_data") => config.window < 1
    /\ Processed =>
         LET close == df.rows
             w == config.window
         IN /\ w >= 1
            /\ Len(signals) = Len(close)
            /\ \A i \in 1..Len(close) :
                  /\ signals[i] \in {0, 1}
                  /\ signals[i] = 1 <=>
                       (i >= w /\ close[i] * w > RangeSum(close, i - w + 1, i))
            /\ signal_rate = [num |-> Ones(signals), den |-> Len(close)]
            /\ (df = ScenarioTable /\ w = 3) =>
                  /\ signals = <<0, 0, 1, 0, 1>>
                  /\ signal_rate = [num |-> 2, den |-> 5]
                  /\ rows_processed = 5

C1_Witness ==
    /\ Terminated
    /\ Processed
    /\ df = ScenarioTable
    /\ config.window = 3
    /\ signals = <<0, 0, 1, 0, 1>>
    /\ SuccessShaped(metrics)
    /\ outputFile = Written(metrics)
    /\ metrics.value = [num |-> 2, den |-> 5]

-----------------------------------------------------------------------------
Count(s, x) == Cardinality({i \in 1..Len(s) : s[i] = x})

\* C2: a run writes at most one complete record to the output path and never
\* starts over; when it has ended, exactly one record was written, it is what
\* the output path holds, and the run is either a success (success-shaped
\* record, exit 0) or an error (error-shaped record, exit 1); the process has
\* an exit status only once it has ended.
C2_OneRecordTwoOutcomes ==
    /\ Len(writes) <= 1
    /\ Count(log, "Job started") <= 1
    /\ exit.exited <=> Terminated
    /\ (writes # <<>> /\ SuccessShaped(writes[1])) =>
          /\ pc \in {"complete", "done"}
          /\ outputFile = Written(writes[1])
    /\ Terminated =>
          /\ Len(writes) = 1
          /\ outputFile = Written(writes[1])
          /\ \/ exit = Exited(0) /\ SuccessShaped(writes[1]) /\ exc = Unbound
             \/ exit = Exited(1) /\ ErrorShaped(writes[1]) /\ exc # Unbound

\* A run that fails while it dumps the success record ends as an error.
C2_Witness ==
    /\ Terminated
    /\ exc # Unbound
    /\ exc.type = "TypeError"
    /\ exc.by = "main"
    /\ Processed
    /\ writes = <<ErrorRecord(exc)>>
    /\ exit = Exited(1)

-----------------------------------------------------------------------------
\* C3: when load_config, load_data or process_data raises, no later stage
\* runs, and the run ends with exit status 1 and one record, at the output
\* path and on standard output, that has exactly the fields version, status
\* and error_message, with version "v1" whatever the configuration says,
\* status "error" and the message of the caught exception.
C3_FailureDiscardsEverything ==
    /\ FailedIn("load_config") =>
          /\ config = Unbound /\ df = Unbound /\ ~Processed
          /\ log \in {<<"Job started">>, <<"Job started", "Job failed">>}
    /\ FailedIn("load_data") =>
          /\ df = Unbound /\ ~Processed
          /\ Count(log, "Data loaded") = 0
    /\ FailedIn("process_data") =>
          /\ ~Processed
          /\ metrics \in {Unbound, ErrorRecord(exc)}
          /\ Count(log, "Signals generated") = 0 /\ Count(log, "Metrics") = 0
    /\ \A stage \in {"load_config", "load_data", "process_data"} :
          FailedIn(stage) =>
             /\ pc \in {"except", "done"}
             /\ \A i \in 1..Len(writes) : ErrorShaped(writes[i])
             /\ Terminated =>
                   /\ outputFile.kind = "record"
                   /\ stdout = <<outputFile.rec>>
                   /\ DOMAIN outputFile.rec = ErrorFields
                   /\ outputFile.rec.version = "v1"
                   /\ outputFile.rec.status = "error"
                   /\ outputFile.rec.error_message = exc.msg
                   /\ exit = Exited(1)

C3_Witness ==
    /\ Terminated
    /\ FailedIn("process_data")
    /\ config.version = "v2"
    /\ outputFile = Written(ErrorRecord(exc))
    /\ outputFile.rec.version = "v1"

-----------------------------------------------------------------------------
\* C4: a row with fewer than `window` rows up to and including itself has no
\* rolling mean and signal 0 whatever its close value, and the comparison
\* does not raise; so a window larger than the table gives all-zero signals
\* and a signal_rate of 0.
C4_WarmUpRowsAreZero ==
    /\ FailedIn("process_data") => config.window < 1
    /\ Processed =>
          /\ \A i \in 1..Len(signals) :
                i < config.window => rolling_mean[i] = NaN /\ signals[i] = 0
          /\ config.window > Len(df.rows) =>
                /\ \A i \in 1..Len(signals) : signals[i] = 0
                /\ signal_rate.num = 0
                /\ signal_rate.den = Len(df.rows)

\* The warm-up row holds the largest close value and still gets signal 0.
C4_Witness ==
    /\ Terminated
    /\ Processed
    /\ config.window = 3
    /\ df.rows = <<1, 3>>
    /\ signals = <<0, 0>>
    /\ SuccessShaped(metrics)
    /\ metrics.value.num = 0

-----------------------------------------------------------------------------
KeyAbsent(doc) == \E i \in 1..Len(RequiredKeys) : RequiredKeys[i] \notin DOMAIN doc

ConfigStageDone == pc \notin {"start", "load_config"}

\* C5: load_config raises FileNotFoundError when the path does not exist;
\* otherwise ValueError when any of seed, window, version is absent from the
\* parsed document, also when all three are; otherwise it returns the
\* document unchanged.  A configuration without window ends the run with an
\* error record and exit status 1.
C5_LoadConfigContract ==
    /\ (ConfigStageDone /\ ~configFile.exists) =>
          FailedIn("load_config") /\ exc.type = "FileNotFoundError"
    /\ (ConfigStageDone /\ configFile.exists /\ KeyAbsent(configFile.doc)) =>
          FailedIn("load_config") /\ exc.type = "ValueError"
    /\ (ConfigStageDone /\ configFile.exists /\ ~KeyAbsent(configFile.doc)) =>
          config = configFile.doc
    /\ (Terminated /\ configFile.exists /\ "window" \notin DOMAIN configFile.doc) =>
          /\ outputFile.kind = "record"
          /\ ErrorShaped(outputFile.rec)
          /\ exit = Exited(1)

-----------------------------------------------------------------------------
DataStageDone == FailedIn("load_data") \/ df # Unbound

\* C6: load_data raises FileNotFoundError when the path does not exist;
\* otherwise ValueError when the table has no rows or no close column;
\* otherwise it returns the table as parsed, rows in order.  A missing input
\* file ends the run with an error record and exit status 1, and under a
\* configuration that loads and seeds the error is load_data's.
C6_LoadDataContract ==
    /\ pc \in {"log_rolling", "process_data", "metrics", "write", "complete"} =>
          DataStageDone
    /\ DataStageDone =>
          IF ~inputFile.exists
          THEN FailedIn("load_data") /\ exc.type = "FileNotFoundError"
          ELSE IF Len(inputFile.table.rows) = 0
                  \/ "close" \notin inputFile.table.columns
          THEN FailedIn("load_data") /\ exc.type = "ValueError"
          ELSE df = inputFile.table /\ ~FailedIn("load_data")
    /\ (Terminated /\ ~inputFile.exists) =>
          /\ outputFile.kind = "record"
          /\ outputFile.rec.status = "error"
          /\ exit = Exited(1)
          /\ (config # Unbound /\ config.seed >= 0) =>
                FailedIn("load_data") /\ exc.type = "FileNotFoundError"

C6_Witness ==
    /\ Terminated
    /\ ~inputFile.exists
    /\ config # Unbound
    /\ config.window = 2
    /\ FailedIn("load_data")
    /\ outputFile = Written(ErrorRecord(exc))

-----------------------------------------------------------------------------
ValidConfiguration ==
    /\ configFile.exists
    /\ configFile.doc # None
    /\ ~KeyAbsent(configFile.doc)
    /\ configFile.doc.seed \in Int
    /\ configFile.doc.window >= 1
    /\ configFile.doc.version # DateValue

ValidTable ==
    /\ inputFile.exists
    /\ "close" \in inputFile.table.columns
    /\ Len(inputFile.table.rows) >= 1

\* C7: with a configuration that has an integer seed, a positive integer
\* window and a string version, and a table with a close column and at least
\* one row, the run succeeds and the record's rows_processed is the table's
\* row count.
C7_RowsProcessedIsRowCount ==
    (Terminated /\ ValidConfiguration /\ ValidTable) =>
        /\ exit = Exited(0)
        /\ outputFile.kind = "record"
        /\ SuccessShaped(outputFile.rec)
        /\ outputFile.rec.rows_processed = Len(inputFile.table.rows)

-----------------------------------------------------------------------------
\* C8: every signal is 0 or 1, and the value of every success-shaped record
\* a run writes is a fraction between 0 and 1 inclusive.
C8_RateInUnitInterval ==
    /\ Processed => \A i \in 1..Len(signals) : signals[i] \in {0, 1}
    /\ \A i \in 1..Len(writes) :
          SuccessShaped(writes[i]) =>
             /\ writes[i].value.den > 0
             /\ 0 <= writes[i].value.num
             /\ writes[i].value.num <= writes[i].value.den

C8_Witness ==
    /\ Terminated
    /\ writes # <<>>
    /\ SuccessShaped(writes[1])
    /\ writes[1].value = [num |-> 2, den |-> 3]

-----------------------------------------------------------------------------
Deterministic == {"version", "rows_processed", "metric", "value", "seed", "status"}

SameOn(fields, a, b) ==
    /\ a.kind = "record" /\ b.kind = "record"
    /\ a.rec.status = b.rec.status
    /\ \A f \in fields :
          (f \in DOMAIN a.rec <=> f \in DOMAIN b.rec)
          /\ (f \in DOMAIN a.rec /\ a.rec.status = "success" => a.rec[f] = b.rec[f])

\* C9: a second run on the same input table and configuration ends with the
\* same status and the same rows_processed, metric, value, seed and version
\* as the first, whatever the first left at the output path; and a second
\* run that differs from the first only in the seed ends with the same
\* status, rows_processed, metric, value and version.
C9_RerunGivesSameOutcome ==
    (rerun /\ Terminated) =>
        /\ exit = prev.exit
        /\ prev.configFile = configFile =>
              SameOn(Deterministic, prev.outputFile, outputFile)
        /\ SameOn(Deterministic \ {"seed"}, prev.outputFile, outputFile)

-----------------------------------------------------------------------------
Milestones ==
    <<"Job started", "Config loaded", "Data loaded", "Rolling mean calculated",
      "Signals generated", "Metrics", "Job completed successfully">>

IsPrefix(s, t) == Len(s) <= Len(t) /\ \A i \in 1..Len(s) : s[i] = t[i]

Front(s) == SubSeq(s, 1, Len(s) - 1)

\* C10: the log of a run is a prefix of start, config loaded, data loaded,
\* rolling mean calculated, signals generated, metrics, completed -- followed
\* by the failure entry if the run failed -- and an entry is logged only
\* after the step it reports: "Rolling mean calculated" only once the rolling
\* mean exists, hence never in a run in which process_data raised.
C10_MilestonesFollowTheirSteps ==
    /\ \/ IsPrefix(log, Milestones)
       \/ log # <<>> /\ log[Len(log)] = "Job failed" /\ IsPrefix(Front(log), Milestones)
    /\ Count(log, "Config loaded") = 1 => config # Unbound
    /\ Count(log, "Data loaded") = 1 => df # Unbound
    /\ Count(log, "Rolling mean calculated") = 1 => rolling_mean # NoSeries
    /\ Count(log, "Signals generated") = 1 => Processed
    /\ FailedIn("process_data") => Count(log, "Rolling mean calculated") = 0

====
